---- MODULE Spec2Model ----
(***************************************************************************)
(* Infinite-Runner (src/script.js): the game's state machine, its          *)
(* per-frame simulation step and its input handlers.                       *)
(*                                                                         *)
(* Numbers.  The program computes in JavaScript doubles.  The model uses   *)
(* fixed point: a quantity q is held as the integer q * Scale (thousandths)*)
(* and every product or quotient is rounded down to a thousandth.  Player  *)
(* positions and velocities are multiples of 0.2 and are exact.            *)
(* Math.random() is a choice from RandomSamples (thousandths in [0, 1)).   *)
(*                                                                         *)
(* Left out: the draw pass and the fields only it reads or writes          *)
(* (colours, backgroundOffset, DOM text and classes).  The window's resize *)
(* listener runs in SpecResize; in the other specifications the window     *)
(* keeps the size it had at load.                                          *)
(***************************************************************************)
EXTENDS Integers, Sequences, FiniteSets

(* ------------------------------ bounds -------------------------------- *)

\* Spec cuts a run when its distance reaches this (units)
MaxDistance == 20
\* SpecPlay cuts a run when its distance reaches this (units)
MaxPlayDistance == 25
\* SpecRun cuts a run when its distance reaches this (units)
MaxRunDistance == 2510
\* in SpecPlay Math.random() yields one of RandomSteps + 1 evenly spread samples
RandomSteps == 1
\* SpecStore cuts a run when its distance reaches this (units)
MaxStoreDistance == 22
\* SpecTrail numbers its samples up to this
MaxTrailAdds == 23
\* SpecTrail calls Trail.update() at most this often
MaxTrailUpdates == 2

(* ---------------------------- fixed point ----------------------------- *)

Scale == 1000
Fx(n) == n * Scale
Floor(q) == q - (q % Scale)
Min(a, b) == IF a < b THEN a ELSE b
Max(a, b) == IF a > b THEN a ELSE b

RandomSamples == {(i * (Scale - 1)) \div RandomSteps : i \in 0..RandomSteps}
\* every draw is 0: each obstacle is a spike, 300 after the last
LowSamples == {0}
\* every draw is 0.999: each obstacle is a small star, high in the air
HighSamples == {Scale - 1}

(* ------------------------------ CONFIG -------------------------------- *)

GRAVITY == (8 * Scale) \div 10
JUMP_FORCE == Fx(-15)
GROUND_HEIGHT == Fx(100)
PLAYER_SIZE == Fx(40)

GAME_STATES == [MENU |-> "menu", PLAYING |-> "playing",
                PAUSED |-> "paused", GAME_OVER |-> "game_over"]

\* window.innerWidth x window.innerHeight when the page loads
WindowSizes == {[CANVAS_WIDTH |-> Fx(100), CANVAS_HEIGHT |-> Fx(400)]}

\* what localStorage holds when the page loads: <<>> is an absent key
StoredRecords == {[highScore |-> <<1000>>, highDistance |-> <<Fx(10000)>>]}

VARIABLES
    CONFIG,        \* CONFIG.CANVAS_WIDTH, CONFIG.CANVAS_HEIGHT
    game,          \* the Game object and everything it owns
    localStorage,  \* the persistent store: key -> <<>> or <<value>>
    isJumping,     \* keyboard latch of setupInput
    isMouseDown,   \* pointer latch of setupInput
    last           \* history: the handler that ran last and what it called

vars == <<CONFIG, game, localStorage, isJumping, isMouseDown, last>>

(* ------------------------------- Trail -------------------------------- *)

maxPoints == 20
TrailDecay == (5 * Scale) \div 100

Trail_new == <<>>

\* variant: at capacity the newest sample is dropped (pop() for shift())
Trail_addPoint_pop(points, x, y) ==
    LET pushed == Append(points, [x |-> x, life |-> Fx(1)])
    IN  IF Len(pushed) > maxPoints
        THEN SubSeq(pushed, 1, Len(pushed) - 1) ELSE pushed

\* a sample's y is read by draw() alone and is left out; its x is kept (in
\* the game every sample has the same x, the player's centre)
Trail_addPoint(points, x, y) ==
    LET pushed == Append(points, [x |-> x, life |-> Fx(1)])
    IN  IF Len(pushed) > maxPoints THEN Tail(pushed) ELSE pushed

Trail_alive(point) == point.life > 0

Trail_update(points) ==
    LET aged == [i \in DOMAIN points |->
                    [points[i] EXCEPT !.life = @ - TrailDecay]]
    IN  SelectSeq(aged, Trail_alive)

(* ------------------------------- Player ------------------------------- *)

\* variant: reset() that leaves the rotation as it is
Player_reset_keepsRotation(p, cfg) ==
    [p EXCEPT !.x = Fx(100),
              !.y = cfg.CANVAS_HEIGHT - GROUND_HEIGHT - PLAYER_SIZE,
              !.width = PLAYER_SIZE,
              !.height = PLAYER_SIZE,
              !.velocityY = 0,
              !.onGround = FALSE]

Player_reset(p, cfg) ==
    [p EXCEPT !.x = Fx(100),
              !.y = cfg.CANVAS_HEIGHT - GROUND_HEIGHT - PLAYER_SIZE,
              !.width = PLAYER_SIZE,
              !.height = PLAYER_SIZE,
              !.velocityY = 0,
              !.onGround = FALSE,
              !.rotation = 0]

Player_new(cfg) ==
    Player_reset([x |-> 0, y |-> 0, width |-> 0, height |-> 0, velocityY |-> 0,
                  onGround |-> FALSE, rotation |-> 0, trail |-> Trail_new], cfg)

\* variant: jump() without its onGround test
Player_jump_unguarded(p) ==
    [p EXCEPT !.velocityY = JUMP_FORCE, !.onGround = FALSE]

Player_jump(p) ==
    IF p.onGround
    THEN [p EXCEPT !.velocityY = JUMP_FORCE, !.onGround = FALSE]
    ELSE p

RotationStep == (15 * Scale) \div 100

\* variant: a landing that leaves the rotation as it is
Player_ground_keepsRotation(p, cfg) ==
    LET v1 == p.velocityY + GRAVITY
        y1 == p.y + v1
        groundY == cfg.CANVAS_HEIGHT - GROUND_HEIGHT
    IN  IF y1 + p.height >= groundY
        THEN [p EXCEPT !.y = groundY - p.height, !.velocityY = 0,
                       !.onGround = TRUE]
        ELSE [p EXCEPT !.y = y1, !.velocityY = v1,
                       !.onGround = FALSE, !.rotation = @ + RotationStep]

\* gravity and integration, then the ground test
Player_ground(p, cfg) ==
    LET v1 == p.velocityY + GRAVITY
        y1 == p.y + v1
        groundY == cfg.CANVAS_HEIGHT - GROUND_HEIGHT
    IN  IF y1 + p.height >= groundY
        THEN [p EXCEPT !.y = groundY - p.height, !.velocityY = 0,
                       !.onGround = TRUE, !.rotation = 0]
        ELSE [p EXCEPT !.y = y1, !.velocityY = v1,
                       !.onGround = FALSE, !.rotation = @ + RotationStep]

Player_ceiling(p) ==
    IF p.y <= 0 THEN [p EXCEPT !.y = 0, !.velocityY = 0] ELSE p

Player_update(p, cfg) ==
    LET q == Player_ceiling(Player_ground(p, cfg))
    IN  [q EXCEPT !.trail =
            Trail_update(Trail_addPoint(@, q.x + q.width \div 2,
                                           q.y + q.height \div 2))]

\* Player.update() returns 'alive' on every path
Player_updateResult(p, cfg) == "alive"

\* variant: the hit box is the whole square, with no inset
Player_getBounds_noInset(p) ==
    [x |-> p.x, y |-> p.y, width |-> p.width, height |-> p.height]

Player_getBounds(p) ==
    [x |-> p.x + Fx(2), y |-> p.y + Fx(2),
     width |-> p.width - Fx(4), height |-> p.height - Fx(4)]

\* variant: a player whose mode has been set to 'ship'
Player_mode_ship(p) == "ship"

\* player.mode is read by the interval timer and assigned nowhere
Player_mode(p) == IF "mode" \in DOMAIN p THEN p.mode ELSE "undefined"

(* ------------------------------- Camera ------------------------------- *)

Camera_new == [x |-> 0, shake |-> 0]

Camera_update(c) ==
    IF c.shake > 0 THEN [c EXCEPT !.shake = (@ * 9) \div 10] ELSE c

\* variant: the shake adds up
Camera_addShake_additive(c, intensity) ==
    [c EXCEPT !.shake = @ + intensity]

Camera_addShake(c, intensity) == [c EXCEPT !.shake = Max(@, intensity)]

(* ------------------------------ Particle ------------------------------ *)

ParticleDecay == (2 * Scale) \div 100

Particle_new(x, y, velocity, r) ==
    [x |-> x, y |-> y, velocity |-> velocity, life |-> Fx(1),
     decay |-> ParticleDecay, size |-> r * 4 + Fx(2)]

Particle_update(pt) ==
    [pt EXCEPT !.x = @ + pt.velocity.x,
               !.y = @ + pt.velocity.y,
               !.velocity = [@ EXCEPT !.y = @ + (2 * Scale) \div 10],
               !.life = @ - pt.decay,
               !.size = (@ * 98) \div 100]

Particle_isDead(pt) == pt.life <= 0

(* ------------------------- ObstacleGenerator -------------------------- *)

obstacleTypes == <<
    [type |-> "spike",  width |-> Fx(40), height |-> Fx(60), ground |-> TRUE],
    [type |-> "cube",   width |-> Fx(50), height |-> Fx(50), ground |-> TRUE],
    [type |-> "cube",   width |-> Fx(50), height |-> Fx(50), ground |-> TRUE],
    [type |-> "orb",    width |-> Fx(35), height |-> Fx(35), ground |-> TRUE],
    [type |-> "robot",  width |-> Fx(45), height |-> Fx(55), ground |-> TRUE],
    [type |-> "ship",   width |-> Fx(60), height |-> Fx(35), ground |-> TRUE],
    [type |-> "ball",   width |-> Fx(40), height |-> Fx(40), ground |-> TRUE],
    [type |-> "wave",   width |-> Fx(55), height |-> Fx(30), ground |-> TRUE],
    [type |-> "spider", width |-> Fx(50), height |-> Fx(40), ground |-> TRUE],
    [type |-> "swing",  width |-> Fx(45), height |-> Fx(50), ground |-> TRUE],
    [type |-> "ufo",    width |-> Fx(60), height |-> Fx(25), ground |-> FALSE],
    [type |-> "star",   width |-> Fx(30), height |-> Fx(30), ground |-> FALSE],
    [type |-> "star",   width |-> Fx(20), height |-> Fx(20), ground |-> FALSE] >>

ObstacleGenerator_new(cfg) ==
    [obstacles |-> <<>>, nextObstacleX |-> cfg.CANVAS_WIDTH]

ObstacleGenerator_reset(g, cfg) ==
    [g EXCEPT !.obstacles = <<>>, !.nextObstacleX = cfg.CANVAS_WIDTH]

\* variant: the spacing is drawn from CONFIG.MIN_OBSTACLE_DISTANCE (200) to
\* CONFIG.MAX_OBSTACLE_DISTANCE (400)
ObstacleGenerator_generateObstacle_config(g, gameSpeed, distance, cfg, rnd) ==
    LET minDistance == Fx(200)
        maxDistance == Fx(400)
        distanceFromLast ==
            minDistance + (rnd[1] * (maxDistance - minDistance)) \div Scale
        n == Len(g.obstacles)
        nextX == IF n > 0 THEN g.obstacles[n].x + distanceFromLast
                          ELSE cfg.CANVAS_WIDTH + Fx(200)
        obstacleTemplate ==
            obstacleTypes[(rnd[2] * Len(obstacleTypes)) \div Scale + 1]
        obstacleY ==
            IF obstacleTemplate.ground
            THEN cfg.CANVAS_HEIGHT - GROUND_HEIGHT - obstacleTemplate.height
            ELSE Fx(50) + rnd[3] * 150
        obstacle == [x |-> nextX, y |-> obstacleY,
                     width |-> obstacleTemplate.width,
                     height |-> obstacleTemplate.height,
                     type |-> obstacleTemplate.type,
                     isAir |-> ~obstacleTemplate.ground]
    IN  [g EXCEPT !.nextObstacleX = nextX,
                  !.obstacles = Append(@, obstacle)]

\* rnd = <<r1, r2, r3>>: the three Math.random() draws, in call order
ObstacleGenerator_generateObstacle(g, gameSpeed, distance, cfg, rnd) ==
    LET minDistance == Fx(300)
        maxDistance == Fx(500)
        distanceFromLast ==
            minDistance + (rnd[1] * (maxDistance - minDistance)) \div Scale
        n == Len(g.obstacles)
        nextX == IF n > 0 THEN g.obstacles[n].x + distanceFromLast
                          ELSE cfg.CANVAS_WIDTH + Fx(200)
        obstacleTemplate ==
            obstacleTypes[(rnd[2] * Len(obstacleTypes)) \div Scale + 1]
        obstacleY ==
            IF obstacleTemplate.ground
            THEN cfg.CANVAS_HEIGHT - GROUND_HEIGHT - obstacleTemplate.height
            ELSE Fx(50) + rnd[3] * 150
        obstacle == [x |-> nextX, y |-> obstacleY,
                     width |-> obstacleTemplate.width,
                     height |-> obstacleTemplate.height,
                     type |-> obstacleTemplate.type,
                     isAir |-> ~obstacleTemplate.ground]
    IN  [g EXCEPT !.nextObstacleX = nextX,
                  !.obstacles = Append(@, obstacle)]

\* variant: the cull tests the left edge
ObstacleGenerator_onScreen_leftEdge(obs) == obs.x > Fx(-100)

ObstacleGenerator_onScreen(obs) == obs.x + obs.width > Fx(-100)

\* variant: the spawn test is `<=` where the code has `<`
ObstacleGenerator_update_orEqual(g, gameSpeed, distance, cfg, rnd) ==
    LET moved == [i \in DOMAIN g.obstacles |->
                     [g.obstacles[i] EXCEPT !.x = @ - gameSpeed]]
        kept == SelectSeq(moved, ObstacleGenerator_onScreen)
        g1 == [g EXCEPT !.obstacles = kept]
    IN  IF Len(kept) = 0 \/ kept[Len(kept)].x <= cfg.CANVAS_WIDTH
        THEN ObstacleGenerator_generateObstacle(g1, gameSpeed, distance, cfg, rnd)
        ELSE g1

\* variant: an obstacle is spawned only when none is left
ObstacleGenerator_update_whenEmpty(g, gameSpeed, distance, cfg, rnd) ==
    LET moved == [i \in DOMAIN g.obstacles |->
                     [g.obstacles[i] EXCEPT !.x = @ - gameSpeed]]
        kept == SelectSeq(moved, ObstacleGenerator_onScreen)
        g1 == [g EXCEPT !.obstacles = kept]
    IN  IF Len(kept) = 0
        THEN ObstacleGenerator_generateObstacle(g1, gameSpeed, distance, cfg, rnd)
        ELSE g1

ObstacleGenerator_update(g, gameSpeed, distance, cfg, rnd) ==
    LET moved == [i \in DOMAIN g.obstacles |->
                     [g.obstacles[i] EXCEPT !.x = @ - gameSpeed]]
        kept == SelectSeq(moved, ObstacleGenerator_onScreen)
        g1 == [g EXCEPT !.obstacles = kept]
    IN  IF Len(kept) = 0 \/ kept[Len(kept)].x < cfg.CANVAS_WIDTH
        THEN ObstacleGenerator_generateObstacle(g1, gameSpeed, distance, cfg, rnd)
        ELSE g1

\* variant: rectangles that touch at an edge count as overlapping
Overlaps_touching(obstacle, playerBounds) ==
    /\ obstacle.x <= playerBounds.x + playerBounds.width
    /\ obstacle.x + obstacle.width >= playerBounds.x
    /\ obstacle.y <= playerBounds.y + playerBounds.height
    /\ obstacle.y + obstacle.height >= playerBounds.y

Overlaps(obstacle, playerBounds) ==
    /\ obstacle.x < playerBounds.x + playerBounds.width
    /\ obstacle.x + obstacle.width > playerBounds.x
    /\ obstacle.y < playerBounds.y + playerBounds.height
    /\ obstacle.y + obstacle.height > playerBounds.y

ObstacleGenerator_checkCollision(g, p) ==
    LET playerBounds == Player_getBounds(p)
    IN  \E i \in DOMAIN g.obstacles : Overlaps(g.obstacles[i], playerBounds)

(* -------------------------------- Game -------------------------------- *)

\* localStorage.getItem(key) || 0
StoredOrZero(ls, key) == IF ls[key] = <<>> THEN 0 ELSE ls[key][1]

Game_new(cfg, ls) ==
    [state |-> GAME_STATES.MENU,
     score |-> 0,
     highScore |-> StoredOrZero(ls, "highScore"),
     highDistance |-> StoredOrZero(ls, "highDistance"),
     gameSpeed |-> Fx(5),
     distance |-> 0,
     player |-> Player_new(cfg),
     camera |-> Camera_new,
     obstacleGenerator |-> ObstacleGenerator_new(cfg),
     particles |-> <<>>]

\* variant: startGame() that forgets to reset the score
Game_startGame_keepsScore(g, cfg) ==
    [g EXCEPT !.state = GAME_STATES.PLAYING,
              !.distance = 0,
              !.gameSpeed = Fx(5),
              !.player = Player_reset(@, cfg),
              !.camera = Camera_new,
              !.obstacleGenerator = ObstacleGenerator_reset(@, cfg),
              !.particles = <<>>]

\* variant: startGame() that leaves the particles of the last run
Game_startGame_keepsParticles(g, cfg) ==
    [g EXCEPT !.state = GAME_STATES.PLAYING,
              !.score = 0,
              !.distance = 0,
              !.gameSpeed = Fx(5),
              !.player = Player_reset(@, cfg),
              !.camera = Camera_new,
              !.obstacleGenerator = ObstacleGenerator_reset(@, cfg)]

\* variant: startGame() that keeps the camera of the last run
Game_startGame_keepsCamera(g, cfg) ==
    [g EXCEPT !.state = GAME_STATES.PLAYING,
              !.score = 0,
              !.distance = 0,
              !.gameSpeed = Fx(5),
              !.player = Player_reset(@, cfg),
              !.obstacleGenerator = ObstacleGenerator_reset(@, cfg),
              !.particles = <<>>]

Game_startGame(g, cfg) ==
    [g EXCEPT !.state = GAME_STATES.PLAYING,
              !.score = 0,
              !.distance = 0,
              !.gameSpeed = Fx(5),
              !.player = Player_reset(@, cfg),
              !.camera = Camera_new,
              !.obstacleGenerator = ObstacleGenerator_reset(@, cfg),
              !.particles = <<>>]

\* variant: pauseGame() without its state test
Game_pauseGame_unguarded(g) == [g EXCEPT !.state = GAME_STATES.PAUSED]

Game_pauseGame(g) ==
    IF g.state = GAME_STATES.PLAYING
    THEN [g EXCEPT !.state = GAME_STATES.PAUSED]
    ELSE g

Game_resumeGame(g) ==
    IF g.state = GAME_STATES.PAUSED
    THEN [g EXCEPT !.state = GAME_STATES.PLAYING]
    ELSE g

\* variant: showMenu() that also clears score and distance
Game_showMenu_resets(g) ==
    [g EXCEPT !.state = GAME_STATES.MENU, !.score = 0, !.distance = 0]

Game_showMenu(g) == [g EXCEPT !.state = GAME_STATES.MENU]

ExplosionCount == 50

\* the burst of gameOver(); r is the Math.random() sample of the burst
Explosion(p, r) ==
    [i \in 1..ExplosionCount |->
        Particle_new(p.x + p.width \div 2, p.y + p.height \div 2,
                     [x |-> ((r - Scale \div 2) * 20),
                      y |-> ((r - Scale \div 2) * 20)], r)]

\* gameOver(): the Game object afterwards
Game_gameOver(g, r) ==
    LET newScore == g.score > g.highScore
        newDistance == g.distance > g.highDistance
    IN  [g EXCEPT !.state = GAME_STATES.GAME_OVER,
                  !.camera = Camera_addShake(@, Fx(20)),
                  !.highScore = IF newScore THEN g.score ELSE @,
                  !.highDistance = IF newDistance THEN Floor(g.distance) ELSE @,
                  !.particles = @ \o Explosion(g.player, r)]

\* gameOver(): the keys it calls localStorage.setItem() with
Store_written(g) ==
    {key \in {"highScore", "highDistance"} :
        IF key = "highScore" THEN g.score > g.highScore
                             ELSE g.distance > g.highDistance}

\* variant: the score is stored at every game over
Store_gameOver_always(g, ls) ==
    LET ls1 == [ls EXCEPT !.highScore = <<g.score>>]
    IN  IF g.distance > g.highDistance
        THEN [ls1 EXCEPT !.highDistance = <<Floor(g.distance)>>] ELSE ls1

\* gameOver(): the persistent store afterwards
Store_gameOver(g, ls) ==
    LET ls1 == IF g.score > g.highScore
               THEN [ls EXCEPT !.highScore = <<g.score>>] ELSE ls
    IN  IF g.distance > g.highDistance
        THEN [ls1 EXCEPT !.highDistance = <<Floor(g.distance)>>] ELSE ls1

\* variant: `distance =` where the code has `distance +=`
Game_advance_assigns(g) ==
    LET d == g.gameSpeed \div 10
    IN  [g EXCEPT !.distance = d,
                  !.gameSpeed = Min(Fx(5) + d \div 500, Fx(10)),
                  !.score = d \div Fx(10)]

\* variant: the speed is computed before the distance is advanced
Game_advance_staleSpeed(g) ==
    LET d == g.distance + g.gameSpeed \div 10
    IN  [g EXCEPT !.distance = d,
                  !.gameSpeed = Min(Fx(5) + g.distance \div 500, Fx(10)),
                  !.score = d \div Fx(10)]

\* lines 714-722 of update(): distance, then speed, then score
Game_advance(g) ==
    LET d == g.distance + g.gameSpeed \div 10
    IN  [g EXCEPT !.distance = d,
                  !.gameSpeed = Min(Fx(5) + d \div 500, Fx(10)),
                  !.score = d \div Fx(10)]

Particle_survives(pt) == ~Particle_isDead(pt)

Game_updateParticles(particles) ==
    SelectSeq([i \in DOMAIN particles |-> Particle_update(particles[i])],
              Particle_survives)

\* update() up to the collision test: player, distance/speed/score, camera,
\* obstacles
Game_simulate(g, cfg, rnd) ==
    LET g1 == [g EXCEPT !.player = Player_update(@, cfg)]
        g2 == Game_advance(g1)
    IN  [g2 EXCEPT !.camera = Camera_update(@),
                   !.obstacleGenerator =
                       ObstacleGenerator_update(@, g2.gameSpeed, g2.distance,
                                                cfg, rnd)]

Game_collides(g) ==
    ObstacleGenerator_checkCollision(g.obstacleGenerator, g.player)

\* update(): TRUE when this call runs gameOver()
Game_dies(g, cfg, rnd) ==
    /\ g.state = GAME_STATES.PLAYING
    /\ \/ Player_updateResult(g.player, cfg) = "death"
       \/ Game_collides(Game_simulate(g, cfg, rnd))

\* update() past its state test
Game_step(g, cfg, rnd, r) ==
    IF Player_updateResult(g.player, cfg) = "death"
    THEN Game_gameOver([g EXCEPT !.player = Player_update(@, cfg)], r)
    ELSE LET s == Game_simulate(g, cfg, rnd)
         IN  IF Game_collides(s)
             THEN Game_gameOver(s, r)
             ELSE [s EXCEPT !.particles = Game_updateParticles(@)]

\* variant: update() without its state test
Game_update_unguarded(g, cfg, rnd, r) == Game_step(g, cfg, rnd, r)

\* update(): the Game object afterwards
Game_update(g, cfg, rnd, r) ==
    IF g.state # GAME_STATES.PLAYING THEN g ELSE Game_step(g, cfg, rnd, r)

\* update(): the persistent store afterwards
Store_update(g, ls, cfg, rnd) ==
    IF ~Game_dies(g, cfg, rnd) THEN ls
    ELSE IF Player_updateResult(g.player, cfg) = "death"
    THEN Store_gameOver([g EXCEPT !.player = Player_update(@, cfg)], ls)
    ELSE Store_gameOver(Game_simulate(g, cfg, rnd), ls)

(* ---------------------------- the handlers ---------------------------- *)

KeyCodes == {"Space", "KeyP", "Escape", "KeyR", "KeyS", "KeyM"}
\* keyup tests for Space alone: Space and one other key
KeyUpCodes == {"Space", "Escape"}
Buttons == {"play-btn", "retry-btn", "pause-btn", "resume-btn", "restart-btn",
            "menu-btn"}

\* new Game(), on window load
Construct(sizes, stored) ==
    /\ CONFIG \in sizes
    /\ localStorage \in stored
    /\ game = Game_new(CONFIG, localStorage)
    /\ isJumping = FALSE
    /\ isMouseDown = FALSE

\* variant: the Space branch of keydown without its latch test
KeydownCall_unlatched(code, st, jumping) ==
    CASE code = "Space" /\ st = GAME_STATES.MENU -> "startGame"
      [] code = "Space" /\ st = GAME_STATES.GAME_OVER -> "startGame"
      [] code = "Space" /\ st = GAME_STATES.PLAYING -> "jump"
      [] code = "KeyP" /\ st = GAME_STATES.MENU -> "startGame"
      [] code = "Escape" /\ st = GAME_STATES.PLAYING -> "pauseGame"
      [] code = "Escape" /\ st = GAME_STATES.PAUSED -> "resumeGame"
      [] code = "KeyR" /\ st = GAME_STATES.GAME_OVER -> "startGame"
      [] code = "KeyR" /\ st = GAME_STATES.PAUSED -> "resumeGame"
      [] code = "KeyS" /\ st = GAME_STATES.PAUSED -> "startGame"
      [] code = "KeyM" -> "showMenu"
      [] OTHER -> "none"

\* the Game method a keydown of `code` calls in state `st`
KeydownCall(code, st, jumping) ==
    CASE code = "Space" /\ st = GAME_STATES.MENU -> "startGame"
      [] code = "Space" /\ st = GAME_STATES.GAME_OVER -> "startGame"
      [] code = "Space" /\ st = GAME_STATES.PLAYING /\ ~jumping -> "jump"
      [] code = "KeyP" /\ st = GAME_STATES.MENU -> "startGame"
      [] code = "Escape" /\ st = GAME_STATES.PLAYING -> "pauseGame"
      [] code = "Escape" /\ st = GAME_STATES.PAUSED -> "resumeGame"
      [] code = "KeyR" /\ st = GAME_STATES.GAME_OVER -> "startGame"
      [] code = "KeyR" /\ st = GAME_STATES.PAUSED -> "resumeGame"
      [] code = "KeyS" /\ st = GAME_STATES.PAUSED -> "startGame"
      [] code = "KeyM" -> "showMenu"
      [] OTHER -> "none"

\* the Game method handleJump calls in state `st`
HandleJumpCall(st) ==
    CASE st = GAME_STATES.PLAYING -> "jump"
      [] st = GAME_STATES.MENU -> "startGame"
      [] st = GAME_STATES.GAME_OVER -> "startGame"
      [] OTHER -> "none"

\* the Game method a button's onclick calls
ButtonCall(btn) ==
    CASE btn \in {"play-btn", "retry-btn", "restart-btn"} -> "startGame"
      [] btn = "pause-btn" -> "pauseGame"
      [] btn = "resume-btn" -> "resumeGame"
      [] OTHER -> "showMenu"

\* the setInterval callback calls jump() under this guard
IntervalCall(g, jumping, mouseDown) ==
    IF /\ g.state = GAME_STATES.PLAYING
       /\ Player_mode(g.player) = "ship"
       /\ (jumping \/ mouseDown)
    THEN "jump" ELSE "none"

\* the Game object after the call
Call(called, g, cfg) ==
    CASE called = "startGame" -> Game_startGame(g, cfg)
      [] called = "pauseGame" -> Game_pauseGame(g)
      [] called = "resumeGame" -> Game_resumeGame(g)
      [] called = "showMenu" -> Game_showMenu(g)
      [] called = "jump" -> [g EXCEPT !.player = Player_jump(@)]
      [] OTHER -> g

keydown(code) ==
    LET called == KeydownCall(code, game.state, isJumping)
    IN  /\ game' = Call(called, game, CONFIG)
        /\ isJumping' = IF called = "jump" THEN TRUE ELSE isJumping
        /\ UNCHANGED <<CONFIG, localStorage, isMouseDown>>

keyup(code) ==
    /\ isJumping' = IF code = "Space" THEN FALSE ELSE isJumping
    /\ UNCHANGED <<CONFIG, game, localStorage, isMouseDown>>

\* mousedown and touchstart on the canvas
handleJump ==
    LET called == HandleJumpCall(game.state)
    IN  /\ game' = Call(called, game, CONFIG)
        /\ isMouseDown' = IF called = "jump" THEN TRUE ELSE isMouseDown
        /\ UNCHANGED <<CONFIG, localStorage, isJumping>>

\* mouseup and touchend on the canvas
handleRelease ==
    /\ isMouseDown' = FALSE
    /\ UNCHANGED <<CONFIG, game, localStorage, isJumping>>

\* the onclick of a button
onclick(btn) ==
    /\ game' = Call(ButtonCall(btn), game, CONFIG)
    /\ UNCHANGED <<CONFIG, localStorage, isJumping, isMouseDown>>

\* the setInterval callback, every 50 ms
interval ==
    /\ game' = Call(IntervalCall(game, isJumping, isMouseDown), game, CONFIG)
    /\ UNCHANGED <<CONFIG, localStorage, isJumping, isMouseDown>>

\* the window's resize listener: CONFIG takes the new inner size
resize(size) ==
    /\ CONFIG' = size
    /\ UNCHANGED <<game, localStorage, isJumping, isMouseDown>>

\* the Math.random() draws a frame can make, from R; a draw nobody reads is
\* the least sample
Least(R) == CHOOSE x \in R : \A y \in R : x <= y

ObstacleDraws(g, cfg, R) ==
    LET speed == Game_advance(g).gameSpeed
        obs == g.obstacleGenerator.obstacles
        none == <<Least(R), Least(R), Least(R)>>
        moved == ObstacleGenerator_update(g.obstacleGenerator, speed, 0, cfg,
                                          none).obstacles
        spawns == Len(moved) > 0 /\ moved[Len(moved)] \notin
                      {[obs[i] EXCEPT !.x = @ - speed] : i \in DOMAIN obs}
    IN  IF g.state # GAME_STATES.PLAYING \/ ~spawns THEN {none}
        ELSE {rnd \in R \X R \X R :
                 /\ Len(obs) = 0 => rnd[1] = Least(R)
                 /\ obstacleTypes[(rnd[2] * Len(obstacleTypes)) \div Scale + 1]
                        .ground => rnd[3] = Least(R)}

BurstDraws(g, cfg, rnd, R) == IF Game_dies(g, cfg, rnd) THEN R ELSE {Least(R)}

\* one animation frame with the draws rnd and r: update(), then draw()
gameLoop(rnd, r) ==
    /\ game' = Game_update(game, CONFIG, rnd, r)
    /\ localStorage' = Store_update(game, localStorage, CONFIG, rnd)
    /\ UNCHANGED <<CONFIG, isJumping, isMouseDown>>

(* --------------------------- specifications --------------------------- *)

Ran(handler, input, called) ==
    [handler |-> handler, input |-> input, called |-> called]

\* a frame whose draws come from R, in a run cut at distance maxD
Frame(R, maxD) ==
    /\ game.state = GAME_STATES.PLAYING => game.distance < Fx(maxD)
    /\ \E rnd \in ObstacleDraws(game, CONFIG, R) :
       \E r \in BurstDraws(game, CONFIG, rnd, R) : gameLoop(rnd, r)

FrameCalled(R) ==
    IF \E rnd \in ObstacleDraws(game, CONFIG, R) : Game_dies(game, CONFIG, rnd)
    THEN "gameOver" ELSE "update"

(* Spec: the game with every handler; `last` is the handler that ran last, *)
(* its key or button, and the method it called.                            *)

Init ==
    /\ Construct(WindowSizes, StoredRecords)
    /\ last = Ran("load", "", "constructor")

Tick ==
    /\ Frame(LowSamples, MaxDistance)
    /\ last' = Ran("gameLoop", "", FrameCalled(LowSamples))

Timer ==
    /\ interval
    /\ last' = Ran("interval", "", IntervalCall(game, isJumping, isMouseDown))

KeyDown ==
    \E code \in KeyCodes :
        /\ keydown(code)
        /\ last' = Ran("keydown", code,
                       KeydownCall(code, game.state, isJumping))

KeyUp ==
    \E code \in KeyUpCodes :
        /\ keyup(code)
        /\ last' = Ran("keyup", code, "none")

PointerDown ==
    /\ handleJump
    /\ last' = Ran("handleJump", "", HandleJumpCall(game.state))

PointerUp ==
    /\ handleRelease
    /\ last' = Ran("handleRelease", "", "none")

Click ==
    \E btn \in Buttons :
        /\ onclick(btn)
        /\ last' = Ran("onclick", btn, ButtonCall(btn))

Next ==
    \/ Tick
    \/ Timer
    \/ KeyDown
    \/ KeyUp
    \/ PointerDown
    \/ PointerUp
    \/ Click

Spec == Init /\ [][Next]_vars

(* SpecPlay: the same handlers with no history kept, more random draws and *)
(* longer runs.                                                            *)

PlayTick == Frame(RandomSamples, MaxPlayDistance) /\ UNCHANGED last
PlayTimer == interval /\ UNCHANGED last
PlayKeyDown == \E code \in KeyCodes : keydown(code) /\ UNCHANGED last
PlayKeyUp == \E code \in KeyUpCodes : keyup(code) /\ UNCHANGED last
PlayPointerDown == handleJump /\ UNCHANGED last
PlayPointerUp == handleRelease /\ UNCHANGED last
PlayClick == \E btn \in Buttons : onclick(btn) /\ UNCHANGED last

NextPlay ==
    \/ PlayTick
    \/ PlayTimer
    \/ PlayKeyDown
    \/ PlayKeyUp
    \/ PlayPointerDown
    \/ PlayPointerUp
    \/ PlayClick

SpecPlay == Init /\ [][NextPlay]_vars

(* SpecRun: long runs.  Every draw is 0.999, so every obstacle is a star   *)
(* above a player who never jumps; the keys are those that start, pause,   *)
(* resume and show the menu.                                               *)

RunKeys == {"KeyP", "Escape", "KeyS", "KeyM"}

RunTick == Frame(HighSamples, MaxRunDistance) /\ UNCHANGED last
RunKeyDown == \E code \in RunKeys : keydown(code) /\ UNCHANGED last

NextRun ==
    \/ RunTick
    \/ RunKeyDown

SpecRun == Init /\ [][NextRun]_vars

(* SpecPlayer: a Player on its own.  jump(), update() and reset() are     *)
(* called in any order, in windows of three heights: one with room for a  *)
(* whole jump, one whose top the jump reaches, and one lower than the     *)
(* ground strip plus the player.  `last` holds the method called and the  *)
(* rotation before the call.                                              *)

PlayerWindowSizes ==
    {[CANVAS_WIDTH |-> Fx(100), CANVAS_HEIGHT |-> Fx(400)],
     [CANVAS_WIDTH |-> Fx(100), CANVAS_HEIGHT |-> Fx(200)],
     [CANVAS_WIDTH |-> Fx(100), CANVAS_HEIGHT |-> Fx(120)]}

InitPlayer ==
    /\ Construct(PlayerWindowSizes, StoredRecords)
    /\ last = Ran("new Player", 0, "constructor")

PlayerJump ==
    /\ game' = [game EXCEPT !.player = Player_jump(@)]
    /\ last' = Ran("jump", game.player.rotation, "jump")
    /\ UNCHANGED <<CONFIG, localStorage, isJumping, isMouseDown>>

PlayerUpdate ==
    /\ game' = [game EXCEPT !.player = Player_update(@, CONFIG)]
    /\ last' = Ran("update", game.player.rotation, "update")
    /\ UNCHANGED <<CONFIG, localStorage, isJumping, isMouseDown>>

PlayerReset ==
    /\ game' = [game EXCEPT !.player = Player_reset(@, CONFIG)]
    /\ last' = Ran("reset", game.player.rotation, "reset")
    /\ UNCHANGED <<CONFIG, localStorage, isJumping, isMouseDown>>

NextPlayer ==
    \/ PlayerJump
    \/ PlayerUpdate
    \/ PlayerReset

SpecPlayer == InitPlayer /\ [][NextPlayer]_vars

(* SpecObstacles: an ObstacleGenerator on its own.  update(speed, 0) and  *)
(* reset() are called in any order, with the lowest and the highest speed *)
(* of the game, every draw of RandomSamples for the spacing and the two   *)
(* extreme draws for the template.                                        *)
(* `last` holds the method called and the speed passed.                   *)

\* a window wide enough for three obstacles at a time
GenWindowSizes == {[CANVAS_WIDTH |-> Fx(400), CANVAS_HEIGHT |-> Fx(400)]}
GenSpeeds == {Fx(5), Fx(10)}
GenDraws ==
    {<<r1, r2, Least(RandomSamples)>> :
        r1 \in RandomSamples, r2 \in LowSamples \cup HighSamples}

InitObstacles ==
    /\ Construct(GenWindowSizes, StoredRecords)
    /\ last = Ran("new ObstacleGenerator", 0, "constructor")

GenUpdate ==
    \E speed \in GenSpeeds : \E rnd \in GenDraws :
        /\ game' = [game EXCEPT !.obstacleGenerator =
                        ObstacleGenerator_update(@, speed, 0, CONFIG, rnd)]
        /\ last' = Ran("update", speed, "update")
        /\ UNCHANGED <<CONFIG, localStorage, isJumping, isMouseDown>>

GenReset ==
    /\ game' = [game EXCEPT !.obstacleGenerator =
                    ObstacleGenerator_reset(@, CONFIG)]
    /\ last' = Ran("reset", 0, "reset")
    /\ UNCHANGED <<CONFIG, localStorage, isJumping, isMouseDown>>

NextObstacles ==
    \/ GenUpdate
    \/ GenReset

SpecObstacles == InitObstacles /\ [][NextObstacles]_vars

(* SpecCollision: checkCollision(player) on its own.  The player is on    *)
(* the ground or at the top of a jump; the active set is empty or holds   *)
(* an obstacle near the player, a spike on the ground or a small star in  *)
(* the air, at an x and y that overlaps the player's hit box, touches it  *)
(* at an edge, or misses it by a thousandth, and perhaps the obstacle     *)
(* spawned after it.  `last` holds the value returned.                    *)

CollisionPlayerYs == {Fx(260), 126800}
CollisionXs == {Fx(61), Fx(62), 62001, Fx(81), Fx(82), 82001, Fx(120),
                137999, Fx(138), Fx(139)}
CollisionStarYs == {108799, 108800, 108801, Fx(150), 164799, 164800}

\* an obstacle as generateObstacle() builds it from a template
FromTemplate(t, x, y) ==
    [x |-> x, y |-> y, width |-> t.width, height |-> t.height,
     type |-> t.type, isAir |-> ~t.ground]

CollisionObstacles ==
    {FromTemplate(obstacleTypes[1], x, Fx(240)) : x \in CollisionXs}
    \cup {FromTemplate(obstacleTypes[13], x, y) :
              x \in CollisionXs, y \in CollisionStarYs}

CollisionGaps == {Fx(300), Fx(450)}

CollisionSets ==
    {<<>>} \cup {<<a>> : a \in CollisionObstacles}
           \cup {<<a, [b EXCEPT !.x = a.x + gap]>> :
                     a, b \in CollisionObstacles, gap \in CollisionGaps}

InitCollision ==
    /\ CONFIG \in WindowSizes
    /\ localStorage \in StoredRecords
    /\ \E y \in CollisionPlayerYs : \E obs \in CollisionSets :
           game = [Game_new(CONFIG, localStorage) EXCEPT
                      !.player.y = y,
                      !.obstacleGenerator.obstacles = obs]
    /\ isJumping = FALSE
    /\ isMouseDown = FALSE
    /\ last = Ran("load", "", "constructor")

CollisionCheck ==
    /\ last' = Ran("checkCollision", "",
                   IF ObstacleGenerator_checkCollision(game.obstacleGenerator,
                                                       game.player)
                   THEN "true" ELSE "false")
    /\ UNCHANGED <<CONFIG, game, localStorage, isJumping, isMouseDown>>

NextCollision ==
    \/ CollisionCheck

SpecCollision == InitCollision /\ [][NextCollision]_vars

(* SpecStore: runs that end, one after another, on a store that starts   *)
(* empty or with the records of an earlier visit.  Every obstacle is a    *)
(* spike; Space starts a run, jumps and restarts.  `last` holds the       *)
(* handler, the keys the step wrote to the store, and the method called.  *)

EarlierRecords ==
    {[highScore |-> <<>>, highDistance |-> <<>>],
     [highScore |-> <<1>>, highDistance |-> <<Fx(17)>>]}

\* the keys this frame writes: those of gameOver(), when update() calls it
FrameWritten ==
    LET rnd == CHOOSE d \in ObstacleDraws(game, CONFIG, LowSamples) : TRUE
    IN  IF Game_dies(game, CONFIG, rnd)
        THEN Store_written(Game_simulate(game, CONFIG, rnd))
        ELSE {}

InitStore ==
    /\ Construct(WindowSizes, EarlierRecords)
    /\ last = Ran("load", {}, "constructor")

StoreTick ==
    /\ Frame(LowSamples, MaxStoreDistance)
    /\ last' = Ran("gameLoop", FrameWritten, FrameCalled(LowSamples))

StoreKeyDown ==
    /\ keydown("Space")
    /\ last' = Ran("keydown", {}, KeydownCall("Space", game.state, isJumping))

StoreKeyUp ==
    /\ keyup("Space")
    /\ last' = Ran("keyup", {}, "none")

NextStore ==
    \/ StoreTick
    \/ StoreKeyDown
    \/ StoreKeyUp

SpecStore == InitStore /\ [][NextStore]_vars

(* SpecTrail: a Trail on its own.  It starts empty, or with two samples   *)
(* in their last and last but one update; addPoint() and update() are     *)
(* called in any order.  The n-th sample ever added has x = n; `last`     *)
(* holds the method called, the number of samples added so far and the    *)
(* number of update() calls so far.                                       *)

TrailStarts ==
    {<<>>,
     <<[x |-> Fx(1), life |-> TrailDecay],
       [x |-> Fx(2), life |-> 2 * TrailDecay]>>}

InitTrail ==
    /\ CONFIG \in WindowSizes
    /\ localStorage \in StoredRecords
    /\ isJumping = FALSE
    /\ isMouseDown = FALSE
    /\ \E start \in TrailStarts :
           /\ game = [Game_new(CONFIG, localStorage) EXCEPT
                         !.player.trail = start]
           /\ last = Ran("new Trail", Len(start), 0)

TrailAdd ==
    /\ last.input < MaxTrailAdds
    /\ game' = [game EXCEPT !.player.trail =
                    Trail_addPoint(@, Fx(last.input + 1), 0)]
    /\ last' = Ran("addPoint", last.input + 1, last.called)
    /\ UNCHANGED <<CONFIG, localStorage, isJumping, isMouseDown>>

TrailUpdate ==
    /\ last.called < MaxTrailUpdates
    /\ game' = [game EXCEPT !.player.trail = Trail_update(@)]
    /\ last' = Ran("update", last.input, last.called + 1)
    /\ UNCHANGED <<CONFIG, localStorage, isJumping, isMouseDown>>

NextTrail ==
    \/ TrailAdd
    \/ TrailUpdate

SpecTrail == InitTrail /\ [][NextTrail]_vars

(* SpecCamera: a Camera on its own.  addShake(intensity) and update() are *)
(* called in any order.  `last` holds the method called, the intensity    *)
(* passed and the shake before the call.                                  *)

ShakeIntensities == {Fx(-5), 0, Fx(5), Fx(20)}

InitCamera ==
    /\ Construct(WindowSizes, StoredRecords)
    /\ last = Ran("new Camera", 0, 0)

CameraAddShake ==
    \E intensity \in ShakeIntensities :
        /\ game' = [game EXCEPT !.camera = Camera_addShake(@, intensity)]
        /\ last' = Ran("addShake", intensity, game.camera.shake)
        /\ UNCHANGED <<CONFIG, localStorage, isJumping, isMouseDown>>

CameraUpdate ==
    /\ game' = [game EXCEPT !.camera = Camera_update(@)]
    /\ last' = Ran("update", 0, game.camera.shake)
    /\ UNCHANGED <<CONFIG, localStorage, isJumping, isMouseDown>>

NextCamera ==
    \/ CameraAddShake
    \/ CameraUpdate

SpecCamera == InitCamera /\ [][NextCamera]_vars

(* SpecResize: a run on the ground in a window that is resized.  KeyP     *)
(* starts the run, frames advance it with every draw 0 (each obstacle a   *)
(* spike on the ground line of the moment it is spawned), and the window  *)
(* takes any of InnerSizes at any time.  `last` holds the handler, the    *)
(* height after it and the method called.                                 *)

\* window.innerWidth x window.innerHeight at a resize
InnerSizes ==
    {[CANVAS_WIDTH |-> Fx(w), CANVAS_HEIGHT |-> Fx(h)] :
        w \in {100, 160}, h \in {400, 600}}

ResizeTick ==
    /\ Frame(LowSamples, MaxPlayDistance)
    /\ last' = Ran("gameLoop", CONFIG.CANVAS_HEIGHT, FrameCalled(LowSamples))

ResizeKeyDown ==
    /\ keydown("KeyP")
    /\ last' = Ran("keydown", CONFIG.CANVAS_HEIGHT,
                   KeydownCall("KeyP", game.state, isJumping))

Resize ==
    \E size \in InnerSizes :
        /\ resize(size)
        /\ last' = Ran("resize", size.CANVAS_HEIGHT, "none")

NextResize ==
    \/ ResizeTick
    \/ ResizeKeyDown
    \/ Resize

SpecResize == Init /\ [][NextResize]_vars

(* SpecLatch: the game with its frames, keys, pointer events and timer,   *)
(* and a record of the Space key kept from the events alone.  `last`      *)
(* holds the handler that ran, this record and the method called.         *)

\* input.key: the key of the event ("" when it has none); input.down: a
\* Space keydown has been handled while Playing and no Space keyup since;
\* input.jumps: the jump() calls of Space keydowns since the last Space
\* keyup (counted up to 2)
Press(key, down, jumps) == [key |-> key, down |-> down, jumps |-> jumps]

InitLatch ==
    /\ Construct(WindowSizes, StoredRecords)
    /\ last = Ran("load", Press("", FALSE, 0), "constructor")

LatchTick ==
    /\ Frame(LowSamples, MaxDistance)
    /\ last' = Ran("gameLoop", [last.input EXCEPT !.key = ""],
                   FrameCalled(LowSamples))

LatchTimer ==
    /\ interval
    /\ last' = Ran("interval", [last.input EXCEPT !.key = ""],
                   IntervalCall(game, isJumping, isMouseDown))

LatchKeyDown ==
    \E code \in KeyCodes :
        LET called == KeydownCall(code, game.state, isJumping)
            space == code = "Space"
        IN  /\ keydown(code)
            /\ last' = Ran("keydown",
                           Press(code,
                                 last.input.down
                                     \/ (space /\ game.state
                                                  = GAME_STATES.PLAYING),
                                 IF space /\ called = "jump"
                                 THEN Min(last.input.jumps + 1, 2)
                                 ELSE last.input.jumps),
                           called)

LatchKeyUp ==
    \E code \in KeyUpCodes :
        /\ keyup(code)
        /\ last' = Ran("keyup",
                       IF code = "Space" THEN Press(code, FALSE, 0)
                       ELSE [last.input EXCEPT !.key = code],
                       "none")

LatchPointerDown ==
    /\ handleJump
    /\ last' = Ran("handleJump", [last.input EXCEPT !.key = ""],
                   HandleJumpCall(game.state))

LatchPointerUp ==
    /\ handleRelease
    /\ last' = Ran("handleRelease", [last.input EXCEPT !.key = ""], "none")

NextLatch ==
    \/ LatchTick
    \/ LatchTimer
    \/ LatchKeyDown
    \/ LatchKeyUp
    \/ LatchPointerDown
    \/ LatchPointerUp

SpecLatch == InitLatch /\ [][NextLatch]_vars

(* ------------------------------ properties ---------------------------- *)

MENU == GAME_STATES.MENU
PLAYING == GAME_STATES.PLAYING
PAUSED == GAME_STATES.PAUSED
GAME_OVER == GAME_STATES.GAME_OVER

\* the simulation state of a Game object
Simulation(g) ==
    <<g.player.x, g.player.y, g.player.velocityY, g.player.onGround,
      g.player.rotation, g.obstacleGenerator.obstacles, g.distance, g.score,
      g.gameSpeed, g.camera.shake, g.particles>>

\* the part of it that the frame update is said to own
Core(g) ==
    <<g.player.velocityY, g.player.onGround, g.obstacleGenerator.obstacles,
      g.distance, g.score, g.gameSpeed>>

\* the step ran a frame while the game was Playing
PlayingFrame == game.state = PLAYING /\ last'.handler = "gameLoop"

\* C1 (as stated): the state starts at Menu and changes only by
\* Menu -> Playing (start), Playing -> Paused (pause), Paused -> Playing
\* (resume or restart), Playing -> GameOver (collision), GameOver -> Playing
\* (restart) and any state -> Menu (menu command); and no start or restart
\* takes effect from a state other than Menu, Paused or GameOver.
C1_Listed(from, to, called) ==
    \/ from = MENU /\ to = PLAYING /\ called = "startGame"
    \/ from = PLAYING /\ to = PAUSED /\ called = "pauseGame"
    \/ from = PAUSED /\ to = PLAYING /\ called \in {"resumeGame", "startGame"}
    \/ from = PLAYING /\ to = GAME_OVER /\ called = "gameOver"
    \/ from = GAME_OVER /\ to = PLAYING /\ called = "startGame"
    \/ to = MENU /\ called = "showMenu"

C1_StateMachine ==
    [][/\ last.handler = "load" => game.state = MENU
       /\ game'.state # game.state =>
              C1_Listed(game.state, game'.state, last'.called)
       /\ (last'.called = "startGame" /\ game' # game) =>
              game.state \in {MENU, PAUSED, GAME_OVER}]_vars

\* the player's box inset by 2 on every side overlaps an obstacle of g
InsetOverlap(g) ==
    \E i \in DOMAIN g.obstacleGenerator.obstacles :
        LET o == g.obstacleGenerator.obstacles[i]
            p == g.player
        IN  /\ o.x < p.x + p.width - Fx(2)
            /\ o.x + o.width > p.x + Fx(2)
            /\ o.y < p.y + p.height - Fx(2)
            /\ o.y + o.height > p.y + Fx(2)

\* C2: a frame run while Playing (the one step that raises the distance)
\* ends in GameOver exactly when, after the player physics and the obstacle
\* shift, cull and spawn of that frame, the inset player box overlaps an
\* obstacle; and GameOver is entered by no other step.
C2_GameOverIffCollision ==
    [][/\ (game.state = PLAYING /\ game'.distance > game.distance) =>
              (game'.state = GAME_OVER <=> InsetOverlap(game'))
       /\ (game'.state = GAME_OVER /\ game.state # GAME_OVER) =>
              /\ game.state = PLAYING
              /\ game'.distance > game.distance
              /\ InsetOverlap(game')]_vars

\* a run that ended on an obstacle in the air, met in a jump
C2_Witness ==
    /\ game.state = GAME_OVER
    /\ InsetOverlap(game)
    /\ \E i \in DOMAIN game.obstacleGenerator.obstacles :
           game.obstacleGenerator.obstacles[i].isAir
    /\ game.player.y + game.player.height
           < CONFIG.CANVAS_HEIGHT - GROUND_HEIGHT

\* C3: a frame or a timer callback that runs while the state is not Playing
\* changes nothing of the simulation (player position, velocity, onGround,
\* rotation, obstacles, distance, score, speed, shake, particles); neither
\* does pauseGame() nor resumeGame(), so a resumed run continues from the
\* simulation state at the pause.
C3_OnlyPlayingAdvances ==
    [][/\ (game.state # PLAYING /\ last'.handler \in {"gameLoop", "interval"})
              => Simulation(game') = Simulation(game)
       /\ last'.called \in {"pauseGame", "resumeGame"}
              => Simulation(game') = Simulation(game)]_vars

\* a frame has just run on a game paused in the middle of a jump
C3_Witness ==
    /\ game.state = PAUSED
    /\ last.handler = "gameLoop"
    /\ game.distance > 0
    /\ game.player.velocityY # 0
    /\ game.obstacleGenerator.obstacles # <<>>

\* C4 (as stated): velocity, onGround, obstacles, distance, score and speed
\* change only in a frame's update(); an input handler leaves them alone.
C4_OnlyUpdateMutates ==
    [][last'.handler # "gameLoop" => Core(game') = Core(game)]_vars

\* C4 (amended): outside a frame's update() they change only when a handler
\* calls player.jump() while Playing, which sets velocityY to JUMP_FORCE and
\* clears onGround at once and touches nothing else, or calls startGame(),
\* which resets them.
C4_HandlersJumpOrStart ==
    [][last'.handler # "gameLoop" =>
          \/ Core(game') = Core(game)
          \/ /\ last'.called = "jump"
             /\ game.state = PLAYING
             /\ game.player.onGround
             /\ game' = [game EXCEPT !.player.velocityY = JUMP_FORCE,
                                     !.player.onGround = FALSE]
          \/ /\ last'.called = "startGame"
             /\ Core(game') = <<0, FALSE, <<>>, 0, 0, Fx(5)>>]_vars

\* a keydown handler has just launched the player, before any frame
C4_Witness ==
    /\ last.handler = "keydown"
    /\ last.called = "jump"
    /\ game.player.velocityY = JUMP_FORCE
    /\ ~game.player.onGround

\* the step delivers a jump input: Space down, or a press on the canvas
JumpInput ==
    \/ last'.handler = "keydown" /\ last'.input = "Space"
    \/ last'.handler = "handleJump"

\* C5 (as stated): a jump input while not Playing, a pause while not
\* Playing and a resume while not Paused leave the Game object unchanged.
C5_InvalidIgnored ==
    [][(\/ JumpInput /\ game.state # PLAYING
        \/ last'.called = "pauseGame" /\ game.state # PLAYING
        \/ last'.called = "resumeGame" /\ game.state # PAUSED)
           => game' = game]_vars

\* C5 (amended): a jump input while Paused, a pause while not Playing and a
\* resume while not Paused leave the Game object unchanged; in Menu and in
\* GameOver a jump input is the start command and starts a run.
C5_InvalidIgnoredPaused ==
    [][/\ (\/ JumpInput /\ game.state = PAUSED
           \/ last'.called = "pauseGame" /\ game.state # PLAYING
           \/ last'.called = "resumeGame" /\ game.state # PAUSED)
              => game' = game
       /\ (JumpInput /\ game.state \in {MENU, GAME_OVER})
              => game' = Game_startGame(game, CONFIG)]_vars

\* Space has just been pressed on a paused run
C5_Witness ==
    /\ last.handler = "keydown"
    /\ last.input = "Space"
    /\ game.state = PAUSED
    /\ game.distance > 0

\* C6: in every reachable state the score is floor(distance / 10)
C6_ScoreIsFloor ==
    /\ game.score * 10 * Scale <= game.distance
    /\ game.distance < (game.score + 1) * 10 * Scale

\* a run that ended with a score above 0
C6_Witness == game.state = GAME_OVER /\ game.score >= 1

\* C7 (as stated): a step taken while Playing does not lower the distance,
\* a Playing frame adds gameSpeed * 0.1 > 0, and a step taken in any other
\* state leaves the distance unchanged.
C7_DistanceMonotone ==
    [][/\ game.state = PLAYING => game'.distance >= game.distance
       /\ PlayingFrame =>
              /\ game'.distance = game.distance + game.gameSpeed \div 10
              /\ game'.distance > game.distance
       /\ game.state # PLAYING => game'.distance = game.distance]_vars

\* C7 (amended): the same, except across a step that calls startGame(),
\* which sets the distance to 0 from whatever state it is called in.
C7_DistanceMonotoneButStart ==
    [][IF last'.called = "startGame"
       THEN game'.distance = 0
       ELSE /\ game.state = PLAYING => game'.distance >= game.distance
            /\ PlayingFrame =>
                   /\ game'.distance = game.distance + game.gameSpeed \div 10
                   /\ game'.distance > game.distance
            /\ game.state # PLAYING => game'.distance = game.distance]_vars

\* a frame has just run on an ended run, whose distance stands
C7_Witness ==
    /\ game.state = GAME_OVER
    /\ last.handler = "gameLoop"
    /\ last.called = "update"
    /\ game.distance > Fx(16)

\* C8: in every reachable state gameSpeed = min(5 + distance / 500, 10), so
\* 5 <= gameSpeed <= 10, and gameSpeed = 10 exactly when distance >= 2500
C8_SpeedFormula ==
    /\ game.gameSpeed =
           IF Fx(5) + game.distance \div 500 < Fx(10)
           THEN Fx(5) + game.distance \div 500 ELSE Fx(10)
    /\ Fx(5) <= game.gameSpeed
    /\ game.gameSpeed <= Fx(10)
    /\ game.gameSpeed = Fx(10) <=> game.distance >= Fx(2500)

\* a run at the cap
C8_Witness ==
    /\ game.state = PLAYING
    /\ game.distance >= Fx(2500)
    /\ game.gameSpeed = Fx(10)

\* C9: right after startGame() the state is Playing, score and distance are
\* 0, the speed is 5, the player is at x = 100 standing on the ground line
\* with velocity and rotation 0, the shake is 0 and there are no obstacles
\* and no particles, whatever the state before.
C9_StartResets ==
    last.called = "startGame" =>
        /\ game.state = PLAYING
        /\ game.score = 0
        /\ game.distance = 0
        /\ game.gameSpeed = Fx(5)
        /\ game.player.x = Fx(100)
        /\ game.player.y + game.player.height
               = CONFIG.CANVAS_HEIGHT - GROUND_HEIGHT
        /\ game.player.velocityY = 0
        /\ game.player.rotation = 0
        /\ game.camera.shake = 0
        /\ game.obstacleGenerator.obstacles = <<>>
        /\ game.particles = <<>>

\* R restarts from GameOver alone: a run restarted after it ended
C9_Witness == last = Ran("keydown", "KeyR", "startGame")

\* C10 (as stated): jump() on a player fresh from its construction or reset
\* sets velocityY to JUMP_FORCE and clears onGround; each Playing frame
\* after that adds GRAVITY to velocityY, until the frame in which the
\* player's bottom edge is back on the ground line, with velocityY 0,
\* onGround true and rotation 0.
C10_FreshPlayerJumps ==
    [][/\ (last.called \in {"constructor", "startGame"}
              /\ last'.called = "jump")
          => /\ game'.player.velocityY = JUMP_FORCE
             /\ ~game'.player.onGround
       /\ PlayingFrame =>
          \/ /\ game'.player.velocityY = game.player.velocityY + GRAVITY
             /\ ~game'.player.onGround
          \/ /\ game'.player.y + game'.player.height
                    = CONFIG.CANVAS_HEIGHT - GROUND_HEIGHT
             /\ game'.player.velocityY = 0
             /\ game'.player.onGround
             /\ game'.player.rotation = 0]_vars

\* C11: jump() changes the player exactly when onGround is true, and then
\* sets velocityY to JUMP_FORCE and clears onGround and nothing else; with
\* onGround false it leaves the whole player as it is, so a jump() made
\* between take-off and the next landing, however often, has no effect.
C11_JumpOnlyFromGround ==
    [][last'.handler = "jump" =>
          /\ game'.player =
                 IF game.player.onGround
                 THEN [game.player EXCEPT !.velocityY = JUMP_FORCE,
                                          !.onGround = FALSE]
                 ELSE game.player
          /\ game'.player # game.player <=> game.player.onGround]_vars

\* jump() has just been called one frame after take-off, to no effect
C11_Witness ==
    /\ last.handler = "jump"
    /\ ~game.player.onGround
    /\ game.player.velocityY = JUMP_FORCE + GRAVITY
    /\ game.player.rotation = RotationStep

\* the player's bottom edge after gravity and integration, before any clamp
C12_Bottom(p) == p.y + (p.velocityY + GRAVITY) + p.height

\* C12 (as stated): an update() in which the bottom edge reaches or passes
\* the ground line ends with the bottom edge on the ground line, velocityY
\* 0, onGround true and rotation 0; any other update() ends with onGround
\* false and the rotation raised by the fixed step.
C12_LandingResets ==
    [][last'.handler = "update" =>
          IF C12_Bottom(game.player) >= CONFIG.CANVAS_HEIGHT - GROUND_HEIGHT
          THEN /\ game'.player.y + game'.player.height
                      = CONFIG.CANVAS_HEIGHT - GROUND_HEIGHT
               /\ game'.player.velocityY = 0
               /\ game'.player.onGround
               /\ game'.player.rotation = 0
          ELSE /\ ~game'.player.onGround
               /\ game'.player.rotation
                      = game.player.rotation + RotationStep]_vars

\* C12 (amended): the same, but the bottom edge ends on the ground line
\* only where the ground line is at least the player's height below the
\* top of the canvas; on a lower canvas the ceiling test that follows puts
\* the player's top edge at 0.
C12_LandingResetsRoom ==
    [][last'.handler = "update" =>
          IF C12_Bottom(game.player) >= CONFIG.CANVAS_HEIGHT - GROUND_HEIGHT
          THEN /\ IF CONFIG.CANVAS_HEIGHT - GROUND_HEIGHT >= game.player.height
                  THEN game'.player.y + game'.player.height
                           = CONFIG.CANVAS_HEIGHT - GROUND_HEIGHT
                  ELSE game'.player.y = 0
               /\ game'.player.velocityY = 0
               /\ game'.player.onGround
               /\ game'.player.rotation = 0
          ELSE /\ ~game'.player.onGround
               /\ game'.player.rotation
                      = game.player.rotation + RotationStep]_vars

\* an update() has just landed a player that had turned through more than
\* 5 radians in the air
C12_Witness ==
    /\ last.handler = "update"
    /\ last.input > Fx(5)
    /\ game.player.onGround
    /\ game.player.rotation = 0
    /\ game.player.y + game.player.height
           = CONFIG.CANVAS_HEIGHT - GROUND_HEIGHT

\* the active set of the game's generator
Active == game.obstacleGenerator.obstacles

\* C13: in every state any two consecutive obstacles of the active set are
\* at least 300 and at most 500 apart in x, from the spawn onwards.
C13_Spacing ==
    \A i \in 1..(Len(Active) - 1) :
        /\ Active[i + 1].x - Active[i].x >= Fx(300)
        /\ Active[i + 1].x - Active[i].x <= Fx(500)

\* three obstacles, one gap the least and one gap above 400
C13_Witness ==
    /\ Len(Active) >= 3
    /\ \E i \in 1..(Len(Active) - 1) : Active[i + 1].x - Active[i].x = Fx(300)
    /\ \E i \in 1..(Len(Active) - 1) : Active[i + 1].x - Active[i].x > Fx(400)

\* how many obstacles of the active set an update(speed) culls
Culled(speed) ==
    Cardinality({i \in DOMAIN Active :
                    Active[i].x - speed + Active[i].width <= Fx(-100)})

\* after the shift by speed and the cull the set is empty, or its last
\* obstacle is left of the screen width
SpawnDue(speed) ==
    \/ Culled(speed) = Len(Active)
    \/ Active[Len(Active)].x - speed < CONFIG.CANVAS_WIDTH

\* C14: an update() adds exactly one obstacle when, after its shift and
\* cull, the active set is empty or its last obstacle's x is below the
\* screen width, and none otherwise; the first update() after a reset() or
\* the construction leaves exactly one obstacle, at screen width + 200.
C14_SpawnRule ==
    [][last'.handler = "update" =>
          /\ Len(Active') = Len(Active) - Culled(last'.input)
                                + (IF SpawnDue(last'.input) THEN 1 ELSE 0)
          /\ last.handler \in {"reset", "new ObstacleGenerator"} =>
                 /\ Len(Active') = 1
                 /\ Active'[1].x = CONFIG.CANVAS_WIDTH + Fx(200)]_vars

\* an update() has just run without spawning: two obstacles, the last one
\* at or beyond the screen width
C14_Witness ==
    /\ last.handler = "update"
    /\ Len(Active) = 2
    /\ Active[2].x >= CONFIG.CANVAS_WIDTH
    /\ Active[2].x < CONFIG.CANVAS_WIDTH + Fx(10)

\* C15: an update(speed) removes exactly the obstacles whose right edge
\* x + width, after the shift, is at or below -100; they are the first of
\* the set; every other obstacle stays, in order, with x lowered by speed
\* and nothing else changed.  reset() empties the set.  After every
\* update() each active obstacle has x + width > -100 and the set is
\* ordered by increasing x.
C15_Lifecycle ==
    [][/\ last'.handler = "update" =>
              LET speed == last'.input
                  k == Culled(speed)
              IN  /\ \A i \in 1..k :
                         Active[i].x - speed + Active[i].width <= Fx(-100)
                  /\ Len(Active') >= Len(Active) - k
                  /\ \A j \in 1..(Len(Active) - k) :
                         Active'[j] = [Active[j + k] EXCEPT !.x = @ - speed]
                  /\ \A i \in DOMAIN Active' :
                         Active'[i].x + Active'[i].width > Fx(-100)
                  /\ \A i \in 1..(Len(Active') - 1) :
                         Active'[i].x < Active'[i + 1].x
       /\ last'.handler = "reset" => Active' = <<>>]_vars

\* an update() has just culled the first obstacle: the set starts with an
\* obstacle that is not the first one spawned, left of the player
C15_Witness ==
    /\ last.handler = "update"
    /\ Len(Active) >= 2
    /\ Active[1].x + Active[1].width < Fx(-90)
    /\ Active[1].isAir

\* obstacle o and the player's box inset by 2 share no point of their
\* interiors, on the x axis or on the y axis
C16_Apart(o, p) ==
    \/ o.x + o.width <= p.x + Fx(2)
    \/ p.x + p.width - Fx(2) <= o.x
    \/ o.y + o.height <= p.y + Fx(2)
    \/ p.y + p.height - Fx(2) <= o.y

\* C16: checkCollision(player) returns true exactly when some active
\* obstacle's rectangle overlaps the player's box inset by 2 on every side,
\* where rectangles that only touch at an edge do not overlap; on an empty
\* active set it returns false.
C16_CheckCollision ==
    last.handler = "checkCollision" =>
        /\ last.called = "true" <=>
               \E i \in DOMAIN Active : ~C16_Apart(Active[i], game.player)
        /\ last.called = "true" <=> InsetOverlap(game)
        /\ Active = <<>> => last.called = "false"

\* checkCollision() has just returned false on a star right above the
\* jumping player, its bottom edge on the hit box's top edge, with another
\* obstacle further on
C16_Witness ==
    /\ last.handler = "checkCollision"
    /\ last.called = "false"
    /\ Len(Active) = 2
    /\ Active[1].x = Fx(120)
    /\ Active[1].y + Active[1].height = game.player.y + Fx(2)

\* the value the store holds under key, an absent key counting as 0
Held(ls, key) == IF ls[key] = <<>> THEN 0 ELSE ls[key][1]

\* the step takes the game from Playing to GameOver
ToGameOver == game.state = PLAYING /\ game'.state = GAME_OVER

\* C17: on every transition to GameOver the store's high-score key is set
\* to the score of the run if that score is strictly above the stored high
\* score, and is left as it is otherwise; the high score in memory never
\* goes down.
C17_RecordCheck ==
    [][/\ ToGameOver =>
              localStorage'.highScore =
                  IF game'.score > Held(localStorage, "highScore")
                  THEN <<game'.score>>
                  ELSE localStorage.highScore
       /\ game'.highScore >= game.highScore]_vars

\* a run has just ended with score 1 on a stored high score of 2
C17_Witness ==
    /\ game.state = GAME_OVER
    /\ last.called = "gameOver"
    /\ game.score = 1
    /\ localStorage.highScore = <<2>>
    /\ game.highScore = 2

\* C18 (as stated): every write to a key of the store puts a value strictly
\* above the one the key held, and the store is written only on the
\* transition to GameOver.
C18_WritesOnlyRecords ==
    [][/\ \A key \in last'.input :
              /\ localStorage'[key] # <<>>
              /\ localStorage'[key][1] > Held(localStorage, key)
       /\ (last'.input # {} \/ localStorage' # localStorage) => ToGameOver]_vars

\* the samples of the player's trail, oldest first
Points == game.player.trail

\* C19: the trail never holds more than 20 samples and keeps them oldest
\* first; addPoint() puts the new sample last, keeps every sample it had
\* when there is room and all but the oldest when there are 20 already;
\* update() adds no sample and keeps the order.
C19_TrailCapacity ==
    [][/\ Len(Points') <= 20
       /\ \A i \in 1..(Len(Points') - 1) : Points'[i].x < Points'[i + 1].x
       /\ last'.handler = "addPoint" =>
              LET n == Len(Points)
                  m == Len(Points')
              IN  /\ m = IF n < 20 THEN n + 1 ELSE 20
                  /\ Points'[m] = [x |-> Fx(last'.input), life |-> Fx(1)]
                  /\ \A j \in 1..(m - 1) : Points'[j] = Points[j + n + 1 - m]
       /\ last'.handler = "update" =>
              \A j \in DOMAIN Points' :
                  \E i \in DOMAIN Points : Points[i].x = Points'[j].x]_vars

\* the 22nd sample has just been added to a trail that was never updated:
\* the trail holds samples 3 to 22
C19_Witness ==
    /\ last = Ran("addPoint", 22, 0)
    /\ Len(Points) = 20
    /\ Points[1].x = Fx(3)
    /\ Points[20].x = Fx(22)

\* C20: addShake(i) sets the shake to the larger of the shake and i, so
\* addShake(5) on a shake of 20 leaves 20 and the same addShake again
\* changes nothing; update() multiplies a shake above 0 by 0.9 (20 becomes
\* 18) and leaves a shake of 0 alone; the shake is never negative.
C20_CameraShake ==
    [][/\ last'.handler = "addShake" =>
              /\ game'.camera.shake =
                     IF game.camera.shake >= last'.input
                     THEN game.camera.shake ELSE last'.input
              /\ Camera_addShake(game'.camera, last'.input) = game'.camera
       /\ last'.handler = "update" =>
              /\ game.camera.shake > 0 =>
                     /\ 10 * game'.camera.shake <= 9 * game.camera.shake
                     /\ 9 * game.camera.shake < 10 * game'.camera.shake + 10
              /\ game.camera.shake = 0 => game'.camera.shake = 0
              /\ game.camera.shake = Fx(20) => game'.camera.shake = Fx(18)
       /\ game'.camera.shake >= 0]_vars

\* addShake(5) has just been called on a shake of 20
C20_Witness ==
    /\ last = Ran("addShake", Fx(5), Fx(20))
    /\ game.camera.shake = Fx(20)

\* no particle of the list has been advanced by Particle.update()
Fresh(particles) ==
    \A i \in DOMAIN particles :
        particles[i].life = Fx(1) /\ particles[i].decay = ParticleDecay

\* C21: in every Playing and every Paused state the particle list is
\* empty; the list changes only when gameOver() appends its burst of 50 and
\* when startGame() empties it, so no particle is ever advanced by
\* Particle.update() (its life stays 1) or removed by the isDead() filter.
C21_NoParticlesInPlay ==
    [][/\ game'.state \in {PLAYING, PAUSED} => game'.particles = <<>>
       /\ Fresh(game'.particles)
       /\ game'.particles # game.particles =>
              \/ /\ last'.called = "gameOver"
                 /\ Len(game'.particles) = Len(game.particles) + ExplosionCount
                 /\ SubSeq(game'.particles, 1, Len(game.particles))
                        = game.particles
              \/ /\ last'.called = "startGame"
                 /\ game'.particles = <<>>]_vars

\* KeyR has just restarted a run that had ended: Playing again, no particle
C21_Witness ==
    /\ last = Ran("keydown", "KeyR", "startGame")
    /\ game.state = PLAYING
    /\ game.particles = <<>>

\* C22: the shake is 0 in every Playing and every Paused state, so a frame
\* that calls Camera.update() finds a shake of 0; the shake is 20 in every
\* GameOver state; it changes only when gameOver() sets it to 20 and when
\* startGame() replaces the camera, so the 20 never decays.
C22_ShakeNeverDecays ==
    [][/\ game'.state \in {PLAYING, PAUSED} => game'.camera.shake = 0
       /\ game'.state = GAME_OVER => game'.camera.shake = Fx(20)
       /\ PlayingFrame => game.camera.shake = 0
       /\ game'.camera.shake # game.camera.shake =>
              \/ last'.called = "gameOver" /\ game'.camera.shake = Fx(20)
              \/ last'.called = "startGame" /\ game'.camera.shake = 0]_vars

\* the menu shown after a run has ended: frames run, the shake is still 20
C22_Witness ==
    /\ game.state = MENU
    /\ last.handler = "gameLoop"
    /\ game.camera.shake = Fx(20)

\* the x-range of an obstacle overlaps that of the player's hit box
XOverlap(o, pb) == o.x < pb.x + pb.width /\ o.x + o.width > pb.x

\* C23: in a frame run while Playing, an obstacle that was entirely right of
\* the player's hit box is not entirely left of it afterwards; and when the
\* frame leaves the player on the ground with an obstacle spawned on the
\* ground in the x-range of its hit box, the frame ends in GameOver.
C23_NoTunnelling ==
    [][(game.state = PLAYING /\ game'.distance > game.distance) =>
          LET pb == Player_getBounds(game.player)
              pbAfter == Player_getBounds(game'.player)
              obs == game.obstacleGenerator.obstacles
              obsAfter == game'.obstacleGenerator.obstacles
          IN  /\ \A i \in DOMAIN obs :
                     obs[i].x >= pb.x + pb.width =>
                         \E j \in DOMAIN obsAfter :
                             /\ obsAfter[j] =
                                    [obs[i] EXCEPT !.x = @ - game'.gameSpeed]
                             /\ obsAfter[j].x + obsAfter[j].width > pbAfter.x
              /\ (/\ game'.player.onGround
                  /\ \E j \in DOMAIN obsAfter :
                         /\ ~obsAfter[j].isAir
                         /\ XOverlap(obsAfter[j], pbAfter))
                     => game'.state = GAME_OVER]_vars

\* C24: the window keeping its width, after the ObstacleGenerator.update()
\* of every frame run while Playing the obstacle list is not empty and its
\* last obstacle has x >= CANVAS_WIDTH.
C24_CourseNeverDry ==
    [][(game.state = PLAYING /\ game'.distance > game.distance) =>
          LET obs == game'.obstacleGenerator.obstacles
          IN  /\ Len(obs) > 0
              /\ obs[Len(obs)].x >= CONFIG.CANVAS_WIDTH]_vars

\* a run in which the first obstacle has come on screen and a second one
\* has been spawned beyond the right edge
C24_Witness ==
    /\ game.state = PLAYING
    /\ Len(game.obstacleGenerator.obstacles) = 2
    /\ game.obstacleGenerator.obstacles[1].x < CONFIG.CANVAS_WIDTH
    /\ game.obstacleGenerator.obstacles[2].x >= CONFIG.CANVAS_WIDTH

\* C25: the guard of the interval-timer callback (state Playing and
\* player.mode 'ship') is false in every state, and a run of the callback
\* calls nothing and changes nothing, also while a jump input is held.
C25_TimerIdle ==
    [][/\ ~(game.state = PLAYING /\ Player_mode(game.player) = "ship")
       /\ last'.handler = "interval" =>
              /\ last'.called = "none"
              /\ game' = game
              /\ UNCHANGED <<CONFIG, localStorage, isJumping, isMouseDown>>]_vars

\* the timer has just run while Playing, with Space and the pointer held
\* and the player on the ground, and the player has not jumped
C25_Witness ==
    /\ last.handler = "interval"
    /\ game.state = PLAYING
    /\ isJumping /\ isMouseDown
    /\ game.player.onGround
    /\ game.player.velocityY = 0

\* C26: a Space keydown that comes after a Space keydown handled while
\* Playing, with no Space keyup between them, does not call jump(); so the
\* Space keydowns between two Space keyups call jump() at most once, and
\* the timer calls it never; a press on the canvas while Playing calls
\* jump() every time, also when no release came since the press before.
C26_KeyboardLatch ==
    [][/\ (last'.handler = "keydown" /\ last'.input.key = "Space"
               /\ last.input.down) => last'.called # "jump"
       /\ last'.input.jumps <= 1
       /\ last'.handler = "interval" => last'.called # "jump"
       /\ (last'.handler = "handleJump" /\ game.state = PLAYING) =>
              /\ last'.called = "jump"
              /\ game'.player = Player_jump(game.player)]_vars

\* Space is held since a keydown that called jump() and has just repeated
\* while Playing, with the player on the ground where a jump would take
\* effect: jump() is not called again
C26_Witness ==
    /\ last.handler = "keydown"
    /\ last.input = Press("Space", TRUE, 1)
    /\ last.called = "none"
    /\ game.state = PLAYING
    /\ game.distance > 0
    /\ game.player.onGround
    /\ game.player.velocityY = 0

====
